---- MODULE Spec2Model ----
(***************************************************************************)
(* Model of the CDC Diabetes Data Explorer backend (src/Capstone1/app.py): *)
(* the safety validator is_safe_query, the three tools                     *)
(* (execute_sql_query, get_database_statistics, create_support_ticket),    *)
(* the schema introspector get_database_schema and the orchestration loop  *)
(* process_user_query.                                                     *)
(*                                                                         *)
(* Python strings that the code inspects character by character (the SQL   *)
(* text) are sequences of one-character strings, so that upper(), strip(), *)
(* the substring test `keyword in query_upper` and startswith() are        *)
(* computed the way the code computes them.                                *)
(***************************************************************************)
EXTENDS Integers, Sequences, FiniteSets, TLC

VARIABLES
    store,           \* the SQLite file at DB_PATH: tables, views, rows
    now,             \* wall clock, in seconds
    pc,              \* position of process_user_query within the current turn
    schema,          \* process_user_query: local `schema`
    messages,        \* process_user_query: local `messages`
    tool_calls,      \* process_user_query: local `tool_calls`
    idx,             \* index of the `for tool_call in tool_calls` loop
    executed_tools,  \* process_user_query: local `executed_tools`
    sent,            \* per backend call of the turn, the length `messages` had
    backend_calls,   \* per backend call of the turn, its `tools` argument and outcome
    ret,             \* the pair returned by process_user_query
    conns,           \* sqlite connections opened and left without close()
    store_log,       \* statements handed to SQLite during the current turn
    last_call,       \* outcome of the most recent tool function call
    tickets,         \* history: the support tickets created, with their creation time
    tool_history,    \* history: the calls of the tool functions, in order
    vq,              \* argument of the most recent is_safe_query call
    vres             \* result of the most recent is_safe_query call

vars ==
    << store, now, pc, schema, messages, tool_calls, idx,
       executed_tools, sent, backend_calls, ret, conns, store_log, last_call,
       tickets, tool_history, vq, vres >>

turnVars ==
    << store, now, pc, schema, messages, tool_calls, idx,
       executed_tools, sent, backend_calls, ret, conns, store_log, last_call >>

\* the histories, which only the specifications of the tools on their own keep
histVars == << tickets, tool_history >>

\* Python's None where the code returns it in place of a string
None == << >>

(***************************************************************************)
(* Bounds of the model.                                                    *)
(***************************************************************************)
MaxChunks == 3
MaxBatch == 2
MaxNow == 1
ExtraRows == 1

(***************************************************************************)
(* Character strings.                                                      *)
(***************************************************************************)
Lower ==
    <<"a","b","c","d","e","f","g","h","i","j","k","l","m",
      "n","o","p","q","r","s","t","u","v","w","x","y","z">>

UpperCase ==
    <<"A","B","C","D","E","F","G","H","I","J","K","L","M",
      "N","O","P","Q","R","S","T","U","V","W","X","Y","Z">>

Whitespace == {" ", "\t", "\n", "\r"}

\* str.upper() on one character
UpperChar(c) ==
    IF \E i \in 1..26 : Lower[i] = c
    THEN UpperCase[CHOOSE i \in 1..26 : Lower[i] = c]
    ELSE c

\* str.upper()
Upper(s) == [i \in 1..Len(s) |-> UpperChar(s[i])]

\* str.lstrip()
LStrip(s) ==
    IF \A i \in 1..Len(s) : s[i] \in Whitespace
    THEN << >>
    ELSE SubSeq(s, CHOOSE i \in 1..Len(s) :
                      /\ s[i] \notin Whitespace
                      /\ \A j \in 1..(i-1) : s[j] \in Whitespace,
                Len(s))

\* str.rstrip()
RStrip(s) ==
    IF \A i \in 1..Len(s) : s[i] \in Whitespace
    THEN << >>
    ELSE SubSeq(s, 1, CHOOSE i \in 1..Len(s) :
                         /\ s[i] \notin Whitespace
                         /\ \A j \in (i+1)..Len(s) : s[j] \in Whitespace)

\* str.strip()
Strip(s) == RStrip(LStrip(s))

\* `sub in s`
Contains(sub, s) ==
    \E i \in 1..(Len(s) - Len(sub) + 1) : SubSeq(s, i, i + Len(sub) - 1) = sub

\* s.startswith(prefix)
StartsWith(s, prefix) ==
    /\ Len(s) >= Len(prefix)
    /\ SubSeq(s, 1, Len(prefix)) = prefix

W_SELECT ==
    <<"S","E","L","E","C","T">>
W_DELETE ==
    <<"D","E","L","E","T","E">>
W_DROP ==
    <<"D","R","O","P">>
W_TRUNCATE ==
    <<"T","R","U","N","C","A","T","E">>
W_ALTER ==
    <<"A","L","T","E","R">>
W_UPDATE ==
    <<"U","P","D","A","T","E">>
W_INSERT ==
    <<"I","N","S","E","R","T">>
W_CREATE ==
    <<"C","R","E","A","T","E">>
W_REPLACE ==
    <<"R","E","P","L","A","C","E">>
W_NOPE ==
    <<"N","O","P","E">>
W_LIMIT1 ==
    <<"L","I","M","I","T"," ","1">>

(***************************************************************************)
(* Safety validator.                                                       *)
(***************************************************************************)
DANGEROUS_KEYWORDS ==
    << W_DELETE, W_DROP, W_TRUNCATE, W_ALTER, W_UPDATE, W_INSERT >>

\* f"Sorry, {keyword} operations aren't allowed for safety reasons"
KeywordMsg(keyword) ==
    << "Sorry, ", keyword, " operations aren't allowed for safety reasons" >>

SelectOnlyMsg ==
    << "We can only run SELECT queries to keep the data safe" >>

\* `for keyword in DANGEROUS_KEYWORDS: if keyword in query_upper: return ...`
\* from position i on: the first keyword found, or None
RECURSIVE FirstKeywordFrom(_, _)
FirstKeywordFrom(i, query_upper) ==
    IF i > Len(DANGEROUS_KEYWORDS) THEN None
    ELSE IF Contains(DANGEROUS_KEYWORDS[i], query_upper) THEN DANGEROUS_KEYWORDS[i]
    ELSE FirstKeywordFrom(i + 1, query_upper)

\* faulty variant: the SELECT-prefix test comes before the keyword loop
is_safe_query_PrefixFirst(query) ==
    LET query_upper == Strip(Upper(query))
        keyword == FirstKeywordFrom(1, query_upper)
    IN  IF ~StartsWith(query_upper, W_SELECT) THEN << FALSE, SelectOnlyMsg >>
        ELSE IF keyword # None THEN << FALSE, KeywordMsg(keyword) >>
        ELSE << TRUE, None >>

\* faulty variant: the SELECT-prefix test is missing
is_safe_query_NoPrefix(query) ==
    LET query_upper == Strip(Upper(query))
        keyword == FirstKeywordFrom(1, query_upper)
    IN  IF keyword # None THEN << FALSE, KeywordMsg(keyword) >>
        ELSE << TRUE, None >>

\* faulty variant: the keyword is looked for in the query as given, not upper-cased
is_safe_query_NoUpper(query) ==
    LET query_upper == Strip(query)
        keyword == FirstKeywordFrom(1, query_upper)
    IN  IF keyword # None THEN << FALSE, KeywordMsg(keyword) >>
        ELSE IF ~StartsWith(query_upper, W_SELECT) THEN << FALSE, SelectOnlyMsg >>
        ELSE << TRUE, None >>

\* faulty variant: the query is upper-cased but not trimmed
is_safe_query_NoStrip(query) ==
    LET query_upper == Upper(query)
        keyword == FirstKeywordFrom(1, query_upper)
    IN  IF keyword # None THEN << FALSE, KeywordMsg(keyword) >>
        ELSE IF ~StartsWith(query_upper, W_SELECT) THEN << FALSE, SelectOnlyMsg >>
        ELSE << TRUE, None >>

\* is_safe_query(query) -> (is_safe, error_msg)
is_safe_query(query) ==
    LET query_upper == Strip(Upper(query))
        keyword == FirstKeywordFrom(1, query_upper)
    IN  IF keyword # None THEN << FALSE, KeywordMsg(keyword) >>
        ELSE IF ~StartsWith(query_upper, W_SELECT) THEN << FALSE, SelectOnlyMsg >>
        ELSE << TRUE, None >>

(***************************************************************************)
(* The store: the SQLite file at DB_PATH.                                  *)
(***************************************************************************)
RowLimit == 100

TableName == "patient_health_data"

Columns ==
    << <<"Diabetes_binary", "REAL">>, <<"BMI", "REAL">>, <<"HighBP", "REAL">>,
       <<"Smoker", "REAL">>, <<"patient_id", "INTEGER">> >>

\* the i-th row of the table, as its patient_id; the column values of a row
\* are functions of it
RowAt(i) == ((i * 37) % 211) + 1
Diabetes_binary(r) == r % 2
HighBP(r) == (r \div 2) % 2
Smoker(r) == (r \div 4) % 2
BMI(r) == 18 + (r % 20)

StoreWith(n) ==
    [ tables |-> << [name |-> TableName, columns |-> Columns] >>,
      views  |-> << "diabetes_by_age", "health_risk_summary" >>,
      rows   |-> [i \in 1..n |-> RowAt(i)] ]

StoreSizes == {0, 1, RowLimit, RowLimit + ExtraRows}

DbStates == {"ok", "unopenable", "unreadable"}

Min(a, b) == IF a <= b THEN a ELSE b

\* more than one SQL statement in the text: sqlite3's execute() refuses it
\* before running anything
MultipleStatements(sql) ==
    \E i \in 1..Len(sql) :
        /\ sql[i] = ";"
        /\ \E j \in (i+1)..Len(sql) : sql[j] \notin (Whitespace \cup {";"})

\* pd.read_sql_query(sql_query, conn) on an open connection: what SQLite does
\* with the statement, by its leading keyword.  A statement that is not a
\* SELECT is run by SQLite and then fails in pandas for want of a result set.
read_sql_query(sql, st, dbs) ==
    LET u == Upper(LStrip(sql))
        fail(msg, st2) == [ok |-> FALSE, msg |-> msg, result |-> << >>, store |-> st2]
        noRows == "'NoneType' object is not iterable"
    IN  IF dbs = "unreadable" THEN fail("file is not a database", st)
        ELSE IF MultipleStatements(sql)
        THEN fail("You can only execute one statement at a time.", st)
        ELSE IF StartsWith(u, W_SELECT)
        THEN IF st.tables = << >> \/ Contains(W_NOPE, u)
             THEN fail("no such table", st)
             ELSE [ ok     |-> TRUE,
                    msg    |-> "",
                    result |-> IF Contains(W_LIMIT1, u)
                               THEN SubSeq(st.rows, 1, Min(1, Len(st.rows)))
                               ELSE st.rows,
                    store  |-> st ]
        ELSE IF StartsWith(u, W_DELETE) THEN fail(noRows, [st EXCEPT !.rows = << >>])
        ELSE IF StartsWith(u, W_DROP)
        THEN fail(noRows, [st EXCEPT !.tables = << >>, !.rows = << >>])
        ELSE IF StartsWith(u, W_INSERT) \/ StartsWith(u, W_REPLACE)
        THEN fail(noRows, [st EXCEPT !.rows = Append(@, 0)])
        ELSE IF StartsWith(u, W_UPDATE)
        THEN fail(noRows, [st EXCEPT !.rows = [i \in 1..Len(@) |-> 0]])
        ELSE IF StartsWith(u, W_ALTER)
        THEN fail(noRows, [st EXCEPT !.tables =
                 [i \in 1..Len(@) |->
                    [@[i] EXCEPT !.columns = Append(@, <<"c", "">>)]]])
        ELSE IF StartsWith(u, W_CREATE)
        THEN fail(noRows, [st EXCEPT !.tables =
                 Append(@, [name |-> "x", columns |-> << <<"a", "">> >>])])
        ELSE fail("syntax error", st)

(***************************************************************************)
(* JSON values handed over by the model backend: a type tag and the text.  *)
(***************************************************************************)
Str(chars) == [t |-> "str", v |-> chars]
Int42 == [t |-> "int", v |-> <<"4", "2">>]

(***************************************************************************)
(* Tools.  Each returns what the call did: whether it raised to its        *)
(* caller, the payload it returned (the object json.dumps serialises),     *)
(* the store afterwards, the sqlite3.connect calls it made, the            *)
(* connections these opened, the connections it closed, and the statements *)
(* it handed to SQLite.                                                    *)
(***************************************************************************)
Outcome(raised, payload, st, connects, opened, closed, ran) ==
    [ raised |-> raised, payload |-> payload, store |-> st, connects |-> connects,
      opened |-> opened, closed |-> closed, ran |-> ran ]

\* an exception leaves the call; site is the expression that raised it
Raised(exc, site, st) ==
    Outcome(TRUE, [exception |-> exc, site |-> site], st, 0, 0, 0, << >>)

Stmt(origin, sql) == [origin |-> origin, sql |-> sql]

\* lines 118-136 of execute_sql_query: the try block
run_admitted_query(sql_query, st, dbs) ==
    IF dbs = "unopenable"
    THEN Outcome(FALSE, [error |-> "unable to open database file", success |-> FALSE],
                 st, 1, 0, 0, << >>)
    ELSE LET df == read_sql_query(sql_query, st, dbs)
             log == << Stmt("execute_sql_query", sql_query) >>
         IN  IF df.ok
             THEN Outcome(FALSE,
                          [ success |-> TRUE,
                            rows    |-> Len(df.result),
                            data    |-> SubSeq(df.result, 1, Min(Len(df.result), RowLimit)) ],
                          df.store, 1, 1, 1, log)
             ELSE Outcome(FALSE, [error |-> df.msg, success |-> FALSE],
                          df.store, 1, 1, 0, log)

\* faulty variant: the query is run without asking is_safe_query
execute_sql_query_Unchecked(arg, st, dbs) ==
    IF arg.t # "str" THEN Raised("AttributeError", "query.upper()", st)
    ELSE run_admitted_query(arg.v, st, dbs)

\* faulty variant: rows is the length of the truncated data
execute_sql_query_RowsOfData(arg, st, dbs) ==
    IF arg.t # "str" THEN Raised("AttributeError", "query.upper()", st)
    ELSE LET verdict == is_safe_query(arg.v)
             out == run_admitted_query(arg.v, st, dbs)
         IN  IF ~verdict[1]
             THEN Outcome(FALSE, [error |-> verdict[2], blocked |-> TRUE], st, 0, 0, 0, << >>)
             ELSE IF "rows" \in DOMAIN out.payload
             THEN [out EXCEPT !.payload.rows = Len(out.payload.data)]
             ELSE out

\* execute_sql_query(sql_query); a value that is not a str has no upper()
execute_sql_query(arg, st, dbs) ==
    IF arg.t # "str" THEN Raised("AttributeError", "query.upper()", st)
    ELSE LET verdict == is_safe_query(arg.v)
         IN  IF ~verdict[1]
             THEN Outcome(FALSE, [error |-> verdict[2], blocked |-> TRUE], st, 0, 0, 0, << >>)
             ELSE run_admitted_query(arg.v, st, dbs)

\* the value of a column in a row
ColumnValue(col, r) ==
    CASE col = "Diabetes_binary" -> Diabetes_binary(r)
      [] col = "HighBP" -> HighBP(r)
      [] col = "Smoker" -> Smoker(r)
      [] col = "BMI" -> BMI(r)

RECURSIVE SumRange(_, _, _, _)
\* the sum of a column over rows lo..hi
SumRange(col, rows, lo, hi) ==
    IF lo > hi THEN 0
    ELSE IF lo = hi THEN ColumnValue(col, rows[lo])
    ELSE LET mid == (lo + hi) \div 2
         IN  SumRange(col, rows, lo, mid) + SumRange(col, rows, mid + 1, hi)

\* SELECT SUM(col) over the first n rows
SumOver(col, rows, n) == SumRange(col, rows, 1, n)

\* round(a / b * scale): nearest, in units of 1/scale
RoundRatio(a, b, scale) == (2 * a * scale + b) \div (2 * b)

StatsStatements ==
    << Stmt("get_database_statistics", "SELECT COUNT(*) FROM patient_health_data"),
       Stmt("get_database_statistics", "SELECT SUM(Diabetes_binary) FROM patient_health_data"),
       Stmt("get_database_statistics", "SELECT AVG(BMI) FROM patient_health_data"),
       Stmt("get_database_statistics", "SELECT SUM(HighBP) FROM patient_health_data"),
       Stmt("get_database_statistics", "SELECT SUM(Smoker) FROM patient_health_data") >>

\* faulty variant: no try/except, the exception leaves the function
get_database_statistics_Uncaught(st, dbs) ==
    LET n == Len(st.rows)
        site == "get_database_statistics"
    IN  IF dbs # "ok" THEN Raised("OperationalError", site, st)
        ELSE IF st.tables = << >> THEN Raised("OperationalError", site, st)
        ELSE IF n = 0 THEN Raised("TypeError", site, st)
        ELSE Outcome(FALSE,
                     [ total_patients    |-> n,
                       diabetic_patients |-> SumOver("Diabetes_binary", st.rows, n),
                       diabetes_rate_pct |->
                           RoundRatio(SumOver("Diabetes_binary", st.rows, n) * 100, n, 100),
                       avg_bmi           |-> RoundRatio(SumOver("BMI", st.rows, n), n, 10),
                       high_bp_rate_pct  |->
                           RoundRatio(SumOver("HighBP", st.rows, n) * 100, n, 10),
                       smoker_rate_pct   |->
                           RoundRatio(SumOver("Smoker", st.rows, n) * 100, n, 10) ],
                     st, 1, 1, 1, StatsStatements)

\* get_database_statistics()
get_database_statistics(st, dbs) ==
    LET n == Len(st.rows)
        err(msg, opened, ran) == Outcome(FALSE, [error |-> msg], st, 1, opened, 0, ran)
    IN  IF dbs = "unopenable" THEN err("unable to open database file", 0, << >>)
        ELSE IF dbs = "unreadable"
        THEN err("file is not a database", 1, SubSeq(StatsStatements, 1, 1))
        ELSE IF st.tables = << >>
        THEN err("no such table", 1, SubSeq(StatsStatements, 1, 1))
        ELSE IF n = 0
        THEN \* SUM over no rows is NULL: None / 0 raises TypeError
             err("unsupported operand type(s) for /: 'NoneType' and 'int'", 1,
                 SubSeq(StatsStatements, 1, 2))
        ELSE Outcome(FALSE,
                     [ total_patients    |-> n,
                       diabetic_patients |-> SumOver("Diabetes_binary", st.rows, n),
                       diabetes_rate_pct |->
                           RoundRatio(SumOver("Diabetes_binary", st.rows, n) * 100, n, 100),
                       avg_bmi           |-> RoundRatio(SumOver("BMI", st.rows, n), n, 10),
                       high_bp_rate_pct  |->
                           RoundRatio(SumOver("HighBP", st.rows, n) * 100, n, 10),
                       smoker_rate_pct   |->
                           RoundRatio(SumOver("Smoker", st.rows, n) * 100, n, 10) ],
                     st, 1, 1, 1, StatsStatements)

Digits == <<"0","1","2","3","4","5","6","7","8","9">>

\* '%04d' / '%02d': n in decimal, zero-padded to w digits
Pad(n, w) == [i \in 1..w |-> Digits[((n \div (10 ^ (w - i))) % 10) + 1]]

\* n in decimal, as many digits as it has
Unpadded(n) == IF n < 10 THEN Pad(n, 1) ELSE Pad(n, 2)

IsLeap(y) == (y % 4 = 0 /\ y % 100 # 0) \/ y % 400 = 0

DaysInMonth(y, m) ==
    IF m = 2 THEN (IF IsLeap(y) THEN 29 ELSE 28)
    ELSE IF m \in {4, 6, 9, 11} THEN 30 ELSE 31

RECURSIVE DateFrom(_, _, _)
\* the date d days after the first day of month m of year y
DateFrom(y, m, d) ==
    IF d < DaysInMonth(y, m) THEN [year |-> y, month |-> m, day |-> d + 1]
    ELSE IF m = 12 THEN DateFrom(y + 1, 1, d - DaysInMonth(y, m))
    ELSE DateFrom(y, m + 1, d - DaysInMonth(y, m))

\* datetime.now(): the local wall clock, read t seconds after 2024-01-01 00:00:00;
\* the fraction of the second plays no part in what follows
datetime_now(t) ==
    LET date == DateFrom(2024, 1, t \div (24 * 3600))
        second_of_day == t % (24 * 3600)
    IN  [ year |-> date.year, month |-> date.month, day |-> date.day,
          hour |-> second_of_day \div 3600,
          minute |-> (second_of_day % 3600) \div 60,
          second |-> second_of_day % 60 ]

\* faulty variant: the fields are written without zero padding
StrfTime_NoPad(t) ==
    LET d == datetime_now(t)
    IN  Pad(d.year, 4) \o Unpadded(d.month) \o Unpadded(d.day) \o <<"-">> \o
        Unpadded(d.hour) \o Unpadded(d.minute) \o Unpadded(d.second)

\* datetime.now().strftime('%Y%m%d-%H%M%S')
StrfTime(t) ==
    LET d == datetime_now(t)
    IN  Pad(d.year, 4) \o Pad(d.month, 2) \o Pad(d.day, 2) \o <<"-">> \o
        Pad(d.hour, 2) \o Pad(d.minute, 2) \o Pad(d.second, 2)

\* create_support_ticket(issue_description, user_question="")
create_support_ticket(issue_description, user_question, st, t) ==
    Outcome(FALSE,
            [ ticket_id |-> <<"T","I","C","K","E","T","-">> \o StrfTime(t),
              status    |-> "created",
              message   |-> "Your support ticket has been created and logged for review." ],
            st, 0, 0, 0, << >>)

\* faulty variant: the column lines give the names without the types
table_lines_NamesOnly(tb) ==
    << <<"Table: ", tb.name>>, <<"Columns:">> >> \o
    [j \in 1..Len(tb.columns) |-> <<"  - ", tb.columns[j][1]>>]

\* lines 77-82: the lines of one table, from the rows of PRAGMA table_info
table_lines(tb) ==
    << <<"Table: ", tb.name>>, <<"Columns:">> >> \o
    [j \in 1..Len(tb.columns) |-> <<"  - ", tb.columns[j][1], tb.columns[j][2]>>]

\* get_database_schema(): the schema text line by line, or None
get_database_schema(st, dbs) ==
    LET RECURSIVE AllTables(_)
        AllTables(k) ==
            IF k = 0 THEN << >> ELSE AllTables(k - 1) \o table_lines(st.tables[k])
        viewLines ==
            IF st.views = << >> THEN << >>
            ELSE << <<"Views (pre-made summaries):">> >> \o
                 [j \in 1..Len(st.views) |-> <<"  - ", st.views[j]>>]
        ran == << Stmt("get_database_schema", "SELECT name FROM sqlite_master WHERE type='table'") >>
               \o [k \in 1..Len(st.tables) |->
                      Stmt("get_database_schema", <<"PRAGMA table_info", st.tables[k].name>>)]
               \o << Stmt("get_database_schema", "SELECT name FROM sqlite_master WHERE type='view'") >>
    IN  IF dbs = "unopenable" THEN Outcome(FALSE, None, st, 1, 0, 0, << >>)
        ELSE IF dbs = "unreadable" THEN Outcome(FALSE, None, st, 1, 1, 0, SubSeq(ran, 1, 1))
        ELSE Outcome(FALSE,
                     << <<"Database Schema:">> >> \o AllTables(Len(st.tables)) \o viewLines,
                     st, 1, 1, 1, ran)

(***************************************************************************)
(* Inputs: the SQL texts the model backend may ask for, and the tool       *)
(* invocations it may request.                                             *)
(***************************************************************************)
\* 'SELECT * FROM t'
Q_SelectAll ==
    <<"S","E","L","E","C","T"," ","*"," ","F","R","O","M"," ","t">>
\* '  select * from t limit 1\n'
Q_SelectLimit ==
    <<" "," ","s","e","l","e","c","t"," ","*"," ","f","r","o","m"," ","t"," ","l","i","m","i","t"," ","1","\n">>
\* 'Select * From nope'
Q_SelectMissing ==
    <<"S","e","l","e","c","t"," ","*"," ","F","r","o","m"," ","n","o","p","e">>
\* 'SELECT * FROM t; DROP TABLE t;'
Q_SelectThenDrop ==
    <<"S","E","L","E","C","T"," ","*"," ","F","R","O","M"," ","t",";"," ","D","R","O","P"," ","T","A","B","L","E"," ","t",";">>
\* 'UPDATE t SET x=1'
Q_Update ==
    <<"U","P","D","A","T","E"," ","t"," ","S","E","T"," ","x","=","1">>
\* 'drop table t'
Q_Drop ==
    <<"d","r","o","p"," ","t","a","b","l","e"," ","t">>
\* 'CREATE TABLE x (a)'
Q_Create ==
    <<"C","R","E","A","T","E"," ","T","A","B","L","E"," ","x"," ","(","a",")">>
\* '\treplace into t values (1)'
Q_Replace ==
    <<"\t","r","e","p","l","a","c","e"," ","i","n","t","o"," ","t"," ","v","a","l","u","e","s"," ","(","1",")">>
\* 'SELECT update_log FROM t'
Q_UpdateLog ==
    <<"S","E","L","E","C","T"," ","u","p","d","a","t","e","_","l","o","g"," ","F","R","O","M"," ","t">>

Queries ==
    { Q_SelectAll, Q_SelectLimit, Q_SelectMissing, Q_SelectThenDrop, Q_Update,
      Q_Drop, Q_Create, Q_Replace, Q_UpdateLog }

ArgNames == {"sql_query", "issue_description", "user_question", "limit"}

Absent == [t |-> "absent", v |-> << >>]

NoArgs == [k \in ArgNames |-> Absent]

\* the text of tool_call.function.arguments: a JSON object, other JSON, or no JSON
JsonObject(obj) == [json |-> "object", obj |-> obj]
JsonArray == [json |-> "array", obj |-> NoArgs]
JsonInvalid == [json |-> "invalid", obj |-> NoArgs]

Request(name, arguments) == [name |-> name, arguments |-> arguments]

WellFormedRequests ==
    { Request("execute_sql_query", JsonObject([NoArgs EXCEPT !.sql_query = Str(q)])) :
        q \in Queries }
    \cup
    { Request("get_database_statistics", JsonObject(NoArgs)),
      Request("create_support_ticket",
              JsonObject([NoArgs EXCEPT !.issue_description = Str(<<"h","e","l","p">>)])) }

MalformedRequests ==
    { Request("execute_sql_query", JsonInvalid),
      Request("execute_sql_query", JsonObject(NoArgs)),
      Request("execute_sql_query", JsonObject([NoArgs EXCEPT !.sql_query = Int42])),
      Request("execute_sql_query",
              JsonObject([NoArgs EXCEPT !.sql_query = Str(Q_SelectAll), !.limit = Int42])),
      Request("create_support_ticket",
              JsonObject([NoArgs EXCEPT !.user_question = Str(<<"w","h","y">>)])),
      Request("create_support_ticket",
              JsonObject([NoArgs EXCEPT !.issue_description = Int42])),
      Request("get_database_statistics", JsonArray),
      Request("drop_database", JsonObject(NoArgs)) }

ToolRequests == WellFormedRequests \cup MalformedRequests

\* the invocations the later positions of a batch are drawn from
FollowUpRequests ==
    { Request("execute_sql_query", JsonObject([NoArgs EXCEPT !.sql_query = Str(Q_SelectAll)])),
      Request("execute_sql_query", JsonObject(NoArgs)),
      Request("get_database_statistics", JsonObject(NoArgs)),
      Request("create_support_ticket",
              JsonObject([NoArgs EXCEPT !.issue_description = Str(<<"h","e","l","p">>)])) }

RECURSIVE Batches(_)
\* the batches of 1..n invocations
Batches(n) ==
    IF n = 0 THEN { }
    ELSE IF n = 1 THEN { <<x>> : x \in ToolRequests }
    ELSE LET shorter == Batches(n - 1)
         IN  shorter \cup { Append(b, x) : b \in shorter, x \in FollowUpRequests }

UserQuestions == { <<"How many people have high blood pressure?">> }

Answers == { <<"final answer text">> }

(***************************************************************************)
(* The dispatcher: one iteration of `for tool_call in tool_calls`.         *)
(***************************************************************************)
available_functions ==
    {"execute_sql_query", "get_database_statistics", "create_support_ticket"}

Keys(obj) == { k \in ArgNames : obj[k].t # "absent" }

\* lines 367-375: json.loads, the lookup by name and function_to_call(**function_args)
call_tool(tool_call, st, dbs, t) ==
    LET name == tool_call.function.name
        text == tool_call.function.arguments
        function_args == text.obj
        keys == Keys(function_args)
        binding == "function_to_call(**function_args)"
    IN  IF text.json = "invalid" THEN Raised("JSONDecodeError", "json.loads", st)
        ELSE IF name \notin available_functions
        THEN Raised("KeyError", "available_functions[function_name]", st)
        ELSE IF text.json # "object" THEN Raised("TypeError", binding, st)
        ELSE IF name = "execute_sql_query"
        THEN IF keys = {"sql_query"}
             THEN execute_sql_query(function_args.sql_query, st, dbs)
             ELSE Raised("TypeError", binding, st)
        ELSE IF name = "get_database_statistics"
        THEN IF keys = { }
             THEN get_database_statistics(st, dbs)
             ELSE Raised("TypeError", binding, st)
        ELSE IF "issue_description" \in keys /\ keys \subseteq {"issue_description", "user_question"}
             THEN create_support_ticket(function_args.issue_description,
                                        function_args.user_question, st, t)
             ELSE Raised("TypeError", binding, st)

(***************************************************************************)
(* process_user_query                                                      *)
(***************************************************************************)
SchemaApology == << "Sorry, I couldn't access the database structure right now." >>

ProblemApology(exc) == << "Sorry, I ran into a problem: ", exc >>

Guidance == "You're a friendly health data assistant ... (domain guidance)"

\* faulty variant: the client is built with timeout=None
client_NoTimeout == [timeout |-> None, max_retries |-> "DEFAULT_MAX_RETRIES"]

\* line 30: OpenAI(api_key=OPENAI_API_KEY) passes no timeout, so the client keeps
\* the library's default request timeout and retry count
client == [timeout |-> << "DEFAULT_TIMEOUT" >>, max_retries |-> "DEFAULT_MAX_RETRIES"]

\* lines 211-262: the capabilities offered to the backend in `tools=tools`
tools == {"execute_sql_query", "get_database_statistics", "create_support_ticket"}

\* a backend call made without the `tools` argument
NoTools == { }

\* what a backend call came to: no response yet, a response message, or an
\* exception raised by client.chat.completions.create or by reading the response
Pending == [kind |-> "pending", content |-> None, tool_calls |-> << >>, exception |-> ""]
Answered(content, calls) ==
    [kind |-> "message", content |-> content, tool_calls |-> calls, exception |-> ""]
RaisedBy(exc) ==
    [kind |-> "raised", content |-> None, tool_calls |-> << >>, exception |-> exc]

BackendCall(tools_arg, outcome) == [tools |-> tools_arg, outcome |-> outcome]

\* lines 347-352: the first call, with tools=tools and tool_choice="auto"
first_call == BackendCall(tools, Pending)

\* faulty variant: the final call offers the tools again
final_call_WithTools == BackendCall(tools, Pending)

\* lines 394-397: the final call, without tools
final_call == BackendCall(NoTools, Pending)

\* the backend is unreachable, answers with an error status, or answers with a
\* response that has no choices[0]
BackendErrors == {"APIConnectionError", "APIStatusError", "IndexError"}

\* (tool_results, ai_response); tool_results is None or the executed_tools list
Returned(is_none, tool_results, answer) ==
    [tool_results_is_none |-> is_none, tool_results |-> tool_results, ai_response |-> answer]

NoReturn == Returned(TRUE, << >>, << >>)

\* faulty variant: the handler hands back the tools that ran before the exception
on_exception_PartialTrace(e, partial) ==
    Returned(partial = << >>, partial, ProblemApology(e))

\* lines 404-406: `except Exception as e: return None, f"Sorry, ...{str(e)}"`;
\* partial is executed_tools as it is when the exception arrives
on_exception(e, partial) == Returned(TRUE, << >>, ProblemApology(e))

\* the expressions of the loop body that raise before the tool function is entered
DispatcherSites ==
    {"json.loads", "available_functions[function_name]", "function_to_call(**function_args)"}

\* what the most recent tool call was given and did; entered tells whether the
\* tool function was entered (the dispatcher may raise before it is), db is the
\* state of the database file it met, if it tried to connect
NoCall ==
    [ name |-> "", arg |-> Absent, db |-> "untouched", raised |-> FALSE,
      entered |-> FALSE, payload |-> << >>, connects |-> 0, opened |-> 0,
      closed |-> 0, ran |-> << >> ]

CallRecord(name, arg, dbs, out) ==
    [ name |-> name, arg |-> arg,
      db |-> IF out.connects > 0 THEN dbs ELSE "untouched",
      raised |-> out.raised,
      entered |-> (~out.raised \/ out.payload.site \notin DispatcherSites),
      payload |-> out.payload, connects |-> out.connects,
      opened |-> out.opened, closed |-> out.closed, ran |-> out.ran ]

\* the state of process_user_query before its first statement
TurnInit ==
    /\ pc = "Idle"
    /\ schema = None
    /\ messages = << >>
    /\ tool_calls = << >>
    /\ idx = 0
    /\ executed_tools = << >>
    /\ sent = << >>
    /\ backend_calls = << >>
    /\ ret = NoReturn
    /\ conns = 0
    /\ store_log = << >>
    /\ last_call = NoCall

Init ==
    /\ \E n \in StoreSizes : store = StoreWith(n)
    /\ now = 0
    /\ TurnInit
    /\ tickets = << >>
    /\ tool_history = << >>
    /\ vq = << >>
    /\ vres = << >>

\* faulty variant: the turn goes on without a schema
schema_gate_Ignored(schema_text, msgs) ==
    [ pc |-> "AwaitingModelDecision", ret |-> NoReturn,
      messages |-> msgs, sent |-> << Len(msgs) >>, backend_calls |-> << first_call >> ]

\* lines 282-283 and 339-352: `if not schema: return None, "Sorry, ..."`, else the
\* conversation is built and submitted
schema_gate(schema_text, msgs) ==
    IF schema_text = None
    THEN [ pc |-> "Failed", ret |-> Returned(TRUE, << >>, SchemaApology),
           messages |-> << >>, sent |-> << >>, backend_calls |-> << >> ]
    ELSE [ pc |-> "AwaitingModelDecision", ret |-> NoReturn,
           messages |-> msgs, sent |-> << Len(msgs) >>,
           backend_calls |-> << first_call >> ]

\* lines 278-352: the turn starts, the schema is read, and on success the system
\* context and the question are submitted to the backend
Ask ==
    /\ pc = "Idle"
    /\ \E user_question \in UserQuestions, dbs \in DbStates :
       \E out \in { get_database_schema(store, dbs) } :
         LET msgs == << [role |-> "system", content |-> << Guidance, out.payload >>],
                        [role |-> "user", content |-> user_question] >>
         IN  /\ schema' = out.payload
             /\ conns' = conns + out.opened - out.closed
             /\ store_log' = out.ran
             /\ store' = out.store
             /\ tool_calls' = << >>
             /\ idx' = 0
             /\ executed_tools' = << >>
             /\ last_call' = NoCall
             /\ LET after == schema_gate(out.payload, msgs)
                IN  /\ pc' = after.pc
                    /\ ret' = after.ret
                    /\ messages' = after.messages
                    /\ sent' = after.sent
                    /\ backend_calls' = after.backend_calls
    /\ UNCHANGED << now, histVars, vq, vres >>

\* the last backend call of the turn comes to this outcome
Settled(outcome) == [backend_calls EXCEPT ![Len(backend_calls)].outcome = outcome]

\* faulty variant: no early return, so the empty loop is followed by the final call
BackendAnswersDirectly_FallsThrough ==
    /\ pc = "AwaitingModelDecision"
    /\ \E content \in Answers :
         backend_calls' = Append(Settled(Answered(content, << >>)), final_call)
    /\ pc' = "AwaitingFinalAnswer"
    /\ sent' = Append(sent, Len(messages))
    /\ UNCHANGED << store, now, schema, messages, tool_calls, idx, executed_tools,
                    ret, conns, store_log, last_call, histVars, vq, vres >>

\* lines 354-360: the first response carries no tool calls
BackendAnswersDirectly ==
    /\ pc = "AwaitingModelDecision"
    /\ \E content \in Answers :
         /\ pc' = "Done"
         /\ backend_calls' = Settled(Answered(content, << >>))
         /\ ret' = Returned(TRUE, << >>, content)
    /\ UNCHANGED << store, now, schema, messages, tool_calls, idx, executed_tools,
                    sent, conns, store_log, last_call, histVars, vq, vres >>

\* lines 354-364: the first response carries tool calls
BackendRequestsTools ==
    /\ pc = "AwaitingModelDecision"
    /\ \E batch \in Batches(MaxBatch) :
         LET calls == [i \in 1..Len(batch) |-> [id |-> i, function |-> batch[i]]]
         IN  /\ tool_calls' = calls
             /\ backend_calls' = Settled(Answered(None, calls))
             /\ messages' = Append(messages, [role |-> "assistant", tool_calls |-> calls])
    /\ executed_tools' = << >>
    /\ idx' = 1
    /\ pc' = "DispatchingTools"
    /\ UNCHANGED << store, now, schema, sent, ret, conns, store_log,
                    last_call, histVars, vq, vres >>

\* lines 347-354, 394-399 and 404-406: a backend call, or reading its response,
\* raises
BackendFails ==
    /\ pc \in {"AwaitingModelDecision", "AwaitingFinalAnswer"}
    /\ \E exc \in BackendErrors :
         /\ backend_calls' = Settled(RaisedBy(exc))
         /\ ret' = on_exception(exc, executed_tools)
    /\ pc' = "Failed"
    /\ UNCHANGED << store, now, schema, messages, tool_calls, idx, executed_tools,
                    sent, conns, store_log, last_call, histVars, vq, vres >>

\* lines 30, 347-352, 394-397 and 404-406: no response arrives within the
\* client's request timeout, through all its retries, and the call raises
BackendTimesOut ==
    /\ pc \in {"AwaitingModelDecision", "AwaitingFinalAnswer"}
    /\ client.timeout # None
    /\ backend_calls' = Settled(RaisedBy("APITimeoutError"))
    /\ ret' = on_exception("APITimeoutError", executed_tools)
    /\ pc' = "Failed"
    /\ UNCHANGED << store, now, schema, messages, tool_calls, idx, executed_tools,
                    sent, conns, store_log, last_call, histVars, vq, vres >>

\* the clock when line 191 reads it: any time from the last reading on
ClockReadings(function_name) ==
    IF function_name = "create_support_ticket" THEN now..MaxNow ELSE {now}

\* lines 366-397 and 404-406: one iteration of the loop; after the last one the
\* augmented conversation is submitted for the final answer
DispatchTool ==
    /\ pc = "DispatchingTools"
    /\ \E dbs \in DbStates, t \in ClockReadings(tool_calls[idx].function.name) :
       \E out \in { call_tool(tool_calls[idx], store, dbs, t) } :
       LET tool_call == tool_calls[idx]
           function_name == tool_call.function.name
           arg == IF function_name = "execute_sql_query"
                  THEN tool_call.function.arguments.obj.sql_query
                  ELSE tool_call.function.arguments.obj.issue_description
           msgs == Append(messages,
                          [ tool_call_id |-> tool_call.id, role |-> "tool",
                            name |-> function_name, content |-> out.payload ])
       IN  /\ store' = out.store
           /\ now' = t
           /\ conns' = conns + out.opened - out.closed
           /\ store_log' = store_log \o out.ran
           /\ last_call' = CallRecord(function_name, arg, dbs, out)
           /\ IF out.raised
              THEN /\ pc' = "Failed"
                   /\ ret' = on_exception(out.payload.exception, executed_tools)
                   /\ UNCHANGED << messages, executed_tools, idx, sent, backend_calls >>
              ELSE /\ executed_tools' =
                        Append(executed_tools,
                               [ name |-> function_name,
                                 args |-> tool_call.function.arguments.obj,
                                 result |-> out.payload ])
                   /\ messages' = msgs
                   /\ ret' = ret
                   /\ IF idx = Len(tool_calls)
                      THEN /\ pc' = "AwaitingFinalAnswer"
                           /\ sent' = Append(sent, Len(msgs))
                           /\ backend_calls' = Append(backend_calls, final_call)
                           /\ idx' = idx
                      ELSE /\ pc' = pc
                           /\ sent' = sent
                           /\ backend_calls' = backend_calls
                           /\ idx' = idx + 1
    /\ UNCHANGED << schema, tool_calls, histVars, vq, vres >>

\* lines 399-402: the final response arrives
BackendFinalAnswer ==
    /\ pc = "AwaitingFinalAnswer"
    /\ \E final_message \in Answers :
         /\ pc' = "Done"
         /\ backend_calls' = Settled(Answered(final_message, << >>))
         /\ ret' = Returned(FALSE, executed_tools, final_message)
    /\ UNCHANGED << store, now, schema, messages, tool_calls, idx, executed_tools,
                    sent, conns, store_log, last_call, histVars, vq, vres >>

\* main(), lines 480-484: process_user_query has returned and main() holds the
\* result; the frames of the turn are gone, and with them the connection objects
\* left without close(), which CPython finalises when they become unreachable
TurnEnds ==
    /\ pc \in {"Done", "Failed"}
    /\ pc' = "Idle"
    /\ conns' = 0
    /\ UNCHANGED << store, now, schema, messages, tool_calls, idx, executed_tools,
                    sent, backend_calls, ret, store_log, last_call, histVars, vq, vres >>

\* main(), lines 553-560: the "Need Help?" button
NeedHelp ==
    /\ pc = "Idle"
    /\ \E t \in ClockReadings("create_support_ticket") :
       LET issue == Str(<<"U","s","e","r">>)
           out == create_support_ticket(issue, Str(<< >>), store, t)
       IN  /\ last_call' = CallRecord("create_support_ticket", issue, "ok", out)
           /\ store' = out.store
           /\ now' = t
    /\ UNCHANGED << pc, schema, messages, tool_calls, idx, executed_tools,
                    sent, backend_calls, ret, conns, store_log, histVars, vq, vres >>

Next ==
    \/ Ask
    \/ BackendAnswersDirectly
    \/ BackendRequestsTools
    \/ BackendFails
    \/ BackendTimesOut
    \/ DispatchTool
    \/ BackendFinalAnswer
    \/ TurnEnds
    \/ NeedHelp

Spec == Init /\ [][Next]_vars

(***************************************************************************)
(* is_safe_query on its own: the query is any concatenation of at most     *)
(* MaxChunks pieces of SQL text, so that keywords occur in either case, at *)
(* the start, in the middle, after whitespace, several at once and split   *)
(* over two pieces.                                                        *)
(***************************************************************************)
Chunks ==
    { <<"S","E","L","E","C","T">>,
      <<"s","e","l","e","c","t">>,
      <<" ">>,
      <<"\n">>,
      <<"D","R","O","P">>,
      <<"U","p","d","a","t","e">>,
      <<"d","e","l","e","t","e">>,
      <<"I","N","S","E","R","T">>,
      <<"A","l","t","e","r">>,
      <<"t","r","u","n","c","a","t","e">>,
      <<"U","P">>,
      <<"D","A","T","E">>,
      <<"x">> }

RECURSIVE ChunkQueries(_)
\* the concatenations of at most n chunks
ChunkQueries(n) ==
    IF n = 0 THEN { << >> }
    ELSE LET shorter == ChunkQueries(n - 1)
         IN  shorter \cup { q \o c : q \in shorter, c \in Chunks }

NotRun == << >>

InitValidator ==
    /\ store = StoreWith(0)
    /\ now = 0
    /\ TurnInit
    /\ tickets = << >>
    /\ tool_history = << >>
    /\ vq \in ChunkQueries(MaxChunks)
    /\ vres = NotRun

\* a call is_safe_query(vq)
ValidateQuery ==
    /\ vres = NotRun
    /\ vres' = is_safe_query(vq)
    /\ UNCHANGED << turnVars, histVars, vq >>

NextValidator == ValidateQuery

SpecValidator == InitValidator /\ [][NextValidator]_vars

(***************************************************************************)
(* create_support_ticket on its own: tickets are created one after the     *)
(* other, in the same second or up to MaxWait seconds later, from clock    *)
(* readings just before a minute, an hour, a day, a month and a year turn  *)
(* over and before a field gains a digit.                                  *)
(***************************************************************************)
MaxTickets == 2
MaxWait == 2

Day == 24 * 3600

\* seconds since 2024-01-01 00:00:00 of 00:00:00, 00:00:58, 00:59:58, 09:59:58,
\* and of 23:59:58 on Jan 1, Jan 9, Jan 31, Feb 28, Feb 29, Sep 30 and Dec 31
ClockStarts ==
    { 0, 58, 3598, 10 * 3600 - 2, Day - 2, 9 * Day - 2, 31 * Day - 2, 59 * Day - 2,
      60 * Day - 2, 274 * Day - 2, 366 * Day - 2 }

TicketIssues == { Str(<<"h","e","l","p">>), Str(<< >>), Int42 }

\* the originating question: left to its default "", or given
TicketQuestions == { Str(<< >>), Str(<<"w","h","y">>) }

InitTicket ==
    /\ store = StoreWith(1)
    /\ now \in ClockStarts
    /\ TurnInit
    /\ tickets = << >>
    /\ tool_history = << >>
    /\ vq = << >>
    /\ vres = << >>

\* a call create_support_ticket(issue_description, user_question)
CreateTicket ==
    /\ Len(tickets) < MaxTickets
    /\ \E t \in now..(now + MaxWait), issue \in TicketIssues, question \in TicketQuestions :
       \E out \in { create_support_ticket(issue, question, store, t) } :
         /\ now' = t
         /\ store' = out.store
         /\ last_call' = CallRecord("create_support_ticket", issue, "ok", out)
         /\ tickets' = Append(tickets, [ at |-> t, issue |-> issue, question |-> question,
                                         raised |-> out.raised, payload |-> out.payload ])
    /\ UNCHANGED << pc, schema, messages, tool_calls, idx, executed_tools, sent,
                    backend_calls, ret, conns, store_log, tool_history, vq, vres >>

NextTicket == CreateTicket

SpecTicket == InitTicket /\ [][NextTicket]_vars

(***************************************************************************)
(* The database file while download_real_data.py builds it, and builds it  *)
(* again, with turns of the application in between.                        *)
(***************************************************************************)
\* line 34: sqlite3.connect creates the file, with no table and no view
EmptyDb == [tables |-> << >>, views |-> << >>, rows |-> << >>]

\* line 37: df.to_sql('patient_health_data', conn, if_exists='replace'): the table
\* is dropped and written anew with the columns of the frame and n rows; views
\* stay as they are
LoadTable(st, n) ==
    [ tables |-> << [ name |-> TableName,
                      columns |-> SelectSeq(Columns, LAMBDA c : c[1] # "patient_id") ] >>,
      views  |-> st.views,
      rows   |-> [i \in 1..n |-> RowAt(i)] ]

\* line 43: ALTER TABLE patient_health_data ADD COLUMN patient_id INTEGER
AddPatientId(st) ==
    [st EXCEPT !.tables = << [name |-> TableName, columns |-> Columns] >>]

\* lines 50-79 and the commit: both views appear together
CreateViews(st) ==
    [st EXCEPT !.views = << "diabetes_by_age", "health_risk_summary" >>]

HasPatientId(st) ==
    st.tables # << >> /\ st.tables[1].columns = Columns

\* one statement of download_real_data.py takes effect; a second run of the script
\* starts again at to_sql and stops at CREATE VIEW, the views being there
BuildStep ==
    /\ \/ \E n \in StoreSizes \ {0} : store' = LoadTable(store, n)
       \/ store.tables # << >> /\ ~HasPatientId(store) /\ store' = AddPatientId(store)
       \/ HasPatientId(store) /\ store.views = << >> /\ store' = CreateViews(store)
    /\ store' # store
    /\ UNCHANGED << now, pc, schema, messages, tool_calls, idx, executed_tools, sent,
                    backend_calls, ret, conns, store_log, last_call, histVars, vq, vres >>

InitSchema ==
    /\ store = EmptyDb
    /\ now = 0
    /\ TurnInit
    /\ tickets = << >>
    /\ tool_history = << >>
    /\ vq = << >>
    /\ vres = << >>

NextSchema ==
    \/ BuildStep
    \/ Ask
    \/ BackendAnswersDirectly
    \/ TurnEnds

SpecSchema == InitSchema /\ [][NextSchema]_vars

(***************************************************************************)
(* The functions that open the store, called one after the other in any    *)
(* order, MaxCalls times in all, each meeting the database file in any of  *)
(* its states: get_database_statistics, execute_sql_query with queries     *)
(* that run, fail in the store or are turned down, get_database_schema,    *)
(* and create_support_ticket in between.                                   *)
(***************************************************************************)
MaxCalls == 3

StatisticsQueries == { Q_SelectAll, Q_SelectMissing, Q_Drop, Q_Replace }

InitStatistics ==
    /\ \E n \in StoreSizes : store = StoreWith(n)
    /\ now = 0
    /\ TurnInit
    /\ tickets = << >>
    /\ tool_history = << >>
    /\ vq = << >>
    /\ vres = << >>

\* the function `name` was called with arg, met the database file in state dbs
\* and came to `out`
ToolCalled(name, arg, dbs, out) ==
    /\ store' = out.store
    /\ conns' = conns + out.opened - out.closed
    /\ store_log' = store_log \o out.ran
    /\ last_call' = CallRecord(name, arg, dbs, out)
    /\ tool_history' = Append(tool_history,
                              [ name |-> name, arg |-> arg,
                                db |-> IF out.connects > 0 THEN dbs ELSE "untouched",
                                payload |-> out.payload ])
    /\ UNCHANGED << now, pc, schema, messages, tool_calls, idx, executed_tools, sent,
                    backend_calls, ret, tickets, vq, vres >>

CallStatistics ==
    /\ Len(tool_history) < MaxCalls
    /\ \E dbs \in DbStates :
       \E out \in { get_database_statistics(store, dbs) } :
         ToolCalled("get_database_statistics", Absent, dbs, out)

CallQuery ==
    /\ Len(tool_history) < MaxCalls
    /\ \E q \in StatisticsQueries, dbs \in DbStates :
       \E out \in { execute_sql_query(Str(q), store, dbs) } :
         ToolCalled("execute_sql_query", Str(q), dbs, out)

CallSchema ==
    /\ Len(tool_history) < MaxCalls
    /\ \E dbs \in DbStates :
       \E out \in { get_database_schema(store, dbs) } :
         ToolCalled("get_database_schema", Absent, dbs, out)

CallTicket ==
    /\ Len(tool_history) < MaxCalls
    /\ \E out \in { create_support_ticket(Str(<<"h","e","l","p">>), Str(<< >>), store, now) } :
         ToolCalled("create_support_ticket", Str(<<"h","e","l","p">>), "ok", out)

NextStatistics ==
    \/ CallStatistics
    \/ CallQuery
    \/ CallSchema
    \/ CallTicket

SpecStatistics == InitStatistics /\ [][NextStatistics]_vars

(***************************************************************************)
(* Properties of is_safe_query (checked under SpecValidator).              *)
(***************************************************************************)
\* the verb occurs in the query as a substring, in any letter case
OccursIn(verb, query) ==
    \E i \in 1..(Len(query) - Len(verb) + 1) :
        \A k \in 1..Len(verb) : UpperChar(query[i + k - 1]) = verb[k]

VerbsIn(query) ==
    { i \in 1..Len(DANGEROUS_KEYWORDS) : OccursIn(DANGEROUS_KEYWORDS[i], query) }

BeginsWithSelect(query) == StartsWith(Strip(Upper(query)), W_SELECT)

\* C4 as stated: for every denylisted verb occurring in the query, in any letter
\* case and anywhere, is_safe_query rejects with a reason naming that verb.
C4_EveryVerbNamed ==
    vres # NotRun =>
        \A i \in VerbsIn(vq) : vres = << FALSE, KeywordMsg(DANGEROUS_KEYWORDS[i]) >>

\* C4 amended: a query in which a denylisted verb occurs, in any letter case and
\* anywhere, is rejected, and the reason names the verb occurring in it that
\* comes first in the denylist order DELETE, DROP, TRUNCATE, ALTER, UPDATE,
\* INSERT (the one verb, when only one occurs).
C4_FirstVerbNamed ==
    vres # NotRun =>
        \A i \in VerbsIn(vq) :
            (\A j \in VerbsIn(vq) : i <= j) =>
                vres = << FALSE, KeywordMsg(DANGEROUS_KEYWORDS[i]) >>

\* a query that starts with SELECT and goes on to a lower-case verb was rejected
\* with the reason naming the verb
C4_Witness ==
    /\ vres = << FALSE, KeywordMsg(W_DELETE) >>
    /\ StartsWith(vq, W_SELECT)
    /\ ~Contains(W_DELETE, vq)
    /\ VerbsIn(vq) = {1}

\* C5: every query that, trimmed and upper-cased, does not begin with SELECT is
\* rejected.
C5_NonSelectRejected ==
    (vres # NotRun /\ ~BeginsWithSelect(vq)) => vres[1] = FALSE

\* a query without any denylisted verb and not beginning with SELECT was rejected
C5_Witness ==
    /\ vres # NotRun
    /\ vres[1] = FALSE
    /\ VerbsIn(vq) = { }
    /\ ~BeginsWithSelect(vq)
    /\ Len(vq) > 0

\* C6: a query that contains a denylisted verb and does not begin with SELECT is
\* rejected with a reason naming a verb it contains, never with the
\* must-start-with-SELECT reason.
C6_VerbReasonFirst ==
    (vres # NotRun /\ VerbsIn(vq) # { } /\ ~BeginsWithSelect(vq)) =>
        /\ vres[1] = FALSE
        /\ vres[2] # SelectOnlyMsg
        /\ \E i \in VerbsIn(vq) : vres[2] = KeywordMsg(DANGEROUS_KEYWORDS[i])

\* a query beginning with UPDATE was rejected with the reason naming UPDATE
C6_Witness ==
    /\ vres = << FALSE, KeywordMsg(W_UPDATE) >>
    /\ StartsWith(Upper(vq), W_UPDATE)

(***************************************************************************)
(* Properties of the tools and of the turn (checked under Spec).           *)
(***************************************************************************)
\* the last tool call was a call of execute_sql_query with a query string
QueryCall == last_call.name = "execute_sql_query" /\ last_call.entered /\ last_call.arg.t = "str"

\* what SQLite answers to the last call's query, on the store as it is
StoreAnswer == read_sql_query(last_call.arg.v, store, last_call.db)

\* the store runs the last call's query successfully
StoreRuns == last_call.db = "ok" /\ StoreAnswer.ok

\* C1: every query that execute_sql_query hands to the store has been admitted by
\* is_safe_query; no model-supplied query reaches the store unvalidated.
C1_OnlyAdmittedQueriesRun ==
    \A i \in 1..Len(store_log) :
        store_log[i].origin = "execute_sql_query" => is_safe_query(store_log[i].sql)[1]

\* a turn had one model-supplied query blocked and ran another one on the store
C1_Witness ==
    /\ Len(executed_tools) = 2
    /\ executed_tools[1].name = "execute_sql_query"
    /\ "blocked" \in DOMAIN executed_tools[1].result
    /\ QueryCall
    /\ last_call.connects = 1
    /\ \E i \in 1..Len(store_log) : store_log[i].origin = "execute_sql_query"

\* a message carries rows read from the store's tables
CarriesRows(msg) ==
    /\ msg.role = "tool"
    /\ "data" \in DOMAIN msg.content
    /\ msg.content.data # << >>

\* C2 as stated: no message submitted to the backend, in the first or in the
\* final call, contains row values read from the store's tables.
C2_NoRowsSubmitted ==
    \A k \in 1..Len(sent) : \A m \in 1..sent[k] : ~CarriesRows(messages[m])

\* C3: no tool invocation and no turn changes the rows or the schema of the store.
C3_StoreUnchanged == [][store' = store]_vars

\* a batch asked for DROP TABLE, then for statistics, and both were dispatched
C3_Witness ==
    /\ Len(executed_tools) = 2
    /\ executed_tools[1].name = "execute_sql_query"
    /\ executed_tools[1].args.sql_query = Str(Q_Drop)
    /\ executed_tools[2].name = "get_database_statistics"
    /\ Len(store.rows) > 0

\* C7: when the store runs an admitted query with n matching rows, the result has
\* rows = n and data = the first min(n, 100) rows in store order; for n > 100,
\* data has exactly 100 entries and rows is n.
C7_ExactCountTruncatedData ==
    (QueryCall /\ is_safe_query(last_call.arg.v)[1] /\ StoreRuns) =>
        LET matching == StoreAnswer.result
            n == Len(matching)
        IN  /\ ~last_call.raised
            /\ DOMAIN last_call.payload = {"success", "rows", "data"}
            /\ last_call.payload.rows = n
            /\ last_call.payload.data = SubSeq(matching, 1, Min(n, RowLimit))
            /\ n > RowLimit => (Len(last_call.payload.data) = RowLimit /\ last_call.payload.rows # RowLimit)

\* a query matched more than 100 rows: 100 were returned and rows is the count
C7_Witness ==
    /\ QueryCall
    /\ "rows" \in DOMAIN last_call.payload
    /\ last_call.payload.rows > RowLimit
    /\ Len(last_call.payload.data) = RowLimit
    /\ last_call.payload.data[1] = RowAt(1)

\* C8 as stated: every call of execute_sql_query returns one of three payloads,
\* {success, rows, data}, {error, blocked} or {error, success}, and never raises
\* to its caller.
C8_EveryCallReturnsPayload ==
    (last_call.name = "execute_sql_query" /\ last_call.entered) =>
        /\ ~last_call.raised
        /\ DOMAIN last_call.payload \in
              { {"success", "rows", "data"}, {"error", "blocked"}, {"error", "success"} }

\* What holds of the calls whose argument is a string: no exception leaves the
\* call, and the payload is {success: true, rows, data} with at most 100 data rows
\* when the store runs the admitted query; {error, blocked: true} when the
\* validator rejects it, and then no connection is attempted and nothing is run;
\* {error, success: false} with the store's message when the store fails.
StringQueryPayloads ==
    QueryCall =>
        LET admitted == is_safe_query(last_call.arg.v)[1]
            payload == last_call.payload
        IN  /\ ~last_call.raised
            /\ ~admitted =>
                  /\ DOMAIN payload = {"error", "blocked"}
                  /\ payload.blocked = TRUE
                  /\ payload.error = is_safe_query(last_call.arg.v)[2]
                  /\ last_call.connects = 0
                  /\ last_call.ran = << >>
            /\ (admitted /\ StoreRuns) =>
                  /\ DOMAIN payload = {"success", "rows", "data"}
                  /\ payload.success = TRUE
                  /\ Len(payload.data) <= RowLimit
            /\ (admitted /\ ~StoreRuns) =>
                  /\ DOMAIN payload = {"error", "success"}
                  /\ payload.success = FALSE
                  /\ last_call.db = "ok" => payload.error = StoreAnswer.msg

\* the i-th invocation of the batch has been dispatched
Dispatched(i) == i < idx \/ (i = idx /\ pc # "DispatchingTools")

\* C9 as stated: a dispatched invocation with malformed arguments is recorded in
\* the trace as an error outcome, nothing is raised past the dispatcher, and the
\* turn does not end in Failed because of it.
C9_MalformedIsToolFailure ==
    \A i \in 1..Len(tool_calls) :
        (tool_calls[i].function \in MalformedRequests /\ Dispatched(i)) =>
            /\ ~(i = idx /\ last_call.raised)
            /\ Len(executed_tools) >= i
            /\ "error" \in DOMAIN executed_tools[i].result

\* C10: when schema introspection fails, the turn is Failed at once: no backend
\* call, no tool dispatched, no trace, and the answer is the fixed apology.
C10_IntrospectionFailureIsFatal ==
    schema = None =>
        /\ pc \in {"Idle", "Failed"}
        /\ sent = << >>
        /\ tool_calls = << >>
        /\ executed_tools = << >>
        /\ (pc = "Failed" => last_call = NoCall)
        /\ \A i \in 1..Len(store_log) : store_log[i].origin = "get_database_schema"
        /\ (pc = "Failed" => ret = Returned(TRUE, << >>, SchemaApology))

\* a turn failed at introspection, on a database file that opens but cannot be read
C10_Witness ==
    /\ pc = "Failed"
    /\ schema = None
    /\ conns = 1
    /\ ret.ai_response = SchemaApology

(***************************************************************************)
(* Properties of the backend calls of a turn (checked under Spec).         *)
(***************************************************************************)
\* the k-th backend call of the turn raised
CallRaised(k) == backend_calls[k].outcome.kind = "raised"

\* C11: when a backend call fails (unreachable, error, malformed response, no
\* response in time), at the first call or at the final call, no further call is
\* made, the turn is Failed, and it returns the apology and no tool trace, also
\* when tools of the batch ran before the final call failed.
C11_BackendFailureIsFatal ==
    \A k \in 1..Len(backend_calls) :
        CallRaised(k) =>
            /\ k = Len(backend_calls)
            /\ pc \in {"Failed", "Idle"}
            /\ ret = Returned(TRUE, << >>,
                              ProblemApology(backend_calls[k].outcome.exception))

\* two tools ran, the first returned rows, and then the final call got a
\* malformed response
C11_Witness ==
    /\ pc = "Failed"
    /\ Len(backend_calls) = 2
    /\ CallRaised(2)
    /\ backend_calls[2].outcome.exception = "IndexError"
    /\ Len(executed_tools) = 2
    /\ "data" \in DOMAIN executed_tools[1].result
    /\ ret.tool_results_is_none

\* the first backend response of the turn is a message without tool calls
DirectAnswer ==
    /\ Len(backend_calls) >= 1
    /\ backend_calls[1].outcome.kind = "message"
    /\ backend_calls[1].outcome.tool_calls = << >>

\* C12: when the first backend response contains no tool invocations, the turn is
\* Done after exactly one backend call: no tool is dispatched, the trace is empty
\* and the answer returned is the content of that response.
C12_DirectAnswerEndsTurn ==
    DirectAnswer =>
        /\ pc \in {"Done", "Idle"}
        /\ Len(backend_calls) = 1
        /\ Len(sent) = 1
        /\ tool_calls = << >>
        /\ idx = 0
        /\ executed_tools = << >>
        /\ (pc = "Done" => last_call = NoCall)
        /\ \A i \in 1..Len(store_log) : store_log[i].origin = "get_database_schema"
        /\ ret = Returned(TRUE, << >>, backend_calls[1].outcome.content)

\* a turn is Done on a direct answer
C12_Witness ==
    /\ pc = "Done"
    /\ DirectAnswer
    /\ ret.ai_response \in Answers
    /\ ret.tool_results_is_none

\* the tool calls made so far in the turn, the one that raised included
Dispatches == IF pc = "DispatchingTools" THEN idx - 1 ELSE idx

\* the position in `messages` of the i-th tool-result message: after the system
\* context, the question and the assistant's message
ToolMessageAt(i) == 3 + i

\* the i-th trace entry and the i-th tool-result message are those of the i-th
\* request
HoldsResultOf(i) ==
    /\ executed_tools[i].name = tool_calls[i].function.name
    /\ executed_tools[i].args = tool_calls[i].function.arguments.obj
    /\ messages[ToolMessageAt(i)] =
           [ tool_call_id |-> tool_calls[i].id, role |-> "tool",
             name |-> tool_calls[i].function.name,
             content |-> executed_tools[i].result ]
    /\ \E dbs \in DbStates, t \in 0..now :
           executed_tools[i].result = call_tool(tool_calls[i], store, dbs, t).payload

\* C13 as stated: when the first response requests N >= 1 invocations, the turn
\* dispatches all N in the order requested, the i-th trace entry and the i-th
\* tool-result message hold the i-th invocation's result, all N results are in the
\* conversation submitted by the final call, and exactly one final call follows.
C13_AllDispatchedInOrder ==
    (tool_calls # << >> /\ pc \in {"Done", "Failed"}) =>
        /\ Len(executed_tools) = Len(tool_calls)
        /\ \A i \in 1..Len(tool_calls) : HoldsResultOf(i)
        /\ Len(backend_calls) = 2
        /\ sent[2] = ToolMessageAt(Len(tool_calls))

\* What holds of the invocations dispatched before one raises: they are the
\* requests in order; and a final call is made only once all N results are in
\* the conversation, which it submits.
DispatchedPrefixInOrder ==
    /\ Len(executed_tools) <= Len(tool_calls)
    /\ \A i \in 1..Len(executed_tools) : HoldsResultOf(i)
    /\ Len(backend_calls) = 2 =>
          /\ Len(executed_tools) = Len(tool_calls)
          /\ Len(messages) = ToolMessageAt(Len(tool_calls))
          /\ sent[2] = Len(messages)

\* C14: a turn has at most one round of tool dispatch and at most two backend
\* calls: tools are dispatched only between the first call and the final one, the
\* final call is made once, after the whole batch, with no tools offered, and its
\* response carries no tool calls; the external calls of a turn number at most
\* 2 backend calls plus the N tool dispatches.
C14_OneRoundTwoCalls ==
    /\ Len(backend_calls) <= 2
    /\ pc = "DispatchingTools" => Len(backend_calls) = 1
    /\ pc = "AwaitingFinalAnswer" => Len(backend_calls) = 2
    /\ Len(backend_calls) >= 1 => backend_calls[1].tools = tools
    /\ Len(backend_calls) = 2 =>
          /\ backend_calls[2].tools = NoTools
          /\ backend_calls[2].outcome.tool_calls = << >>
          /\ Dispatches = Len(tool_calls)
    /\ Dispatches <= Len(tool_calls)
    /\ Len(backend_calls) + Dispatches <= 2 + Len(tool_calls)

\* a turn with a batch of two is Done after its second backend call
C14_Witness ==
    /\ pc = "Done"
    /\ Len(backend_calls) = 2
    /\ Len(tool_calls) = 2
    /\ Dispatches = 2
    /\ backend_calls[2].outcome.kind = "message"

(***************************************************************************)
(* Termination of the turn.  The tools are local and return; a pending     *)
(* backend call that gets no response is ended by the client's timeout.    *)
(* The backend itself is under no obligation to respond.                   *)
(***************************************************************************)
\* lines 366-390: an iteration of `for tool_call in tool_calls` ends: the loop
\* moves to the next tool call, or is left for the final call or by an exception.
\* These are the steps of DispatchTool, told by pc and idx alone.
IterationEnds ==
    /\ pc = "DispatchingTools"
    /\ \/ pc' = "DispatchingTools" /\ idx' = idx + 1
       \/ pc' \in {"AwaitingFinalAnswer", "Failed"} /\ idx' = idx

SpecLive == Spec /\ WF_<<pc, idx>>(IterationEnds) /\ WF_vars(BackendTimesOut)

\* the turn is under way
InTurn == pc \in {"AwaitingModelDecision", "DispatchingTools", "AwaitingFinalAnswer"}

CodeOrder == <<"-","0","1","2","3","4","5","6","7","8","9","C","E","I","K","T">>

Code(c) == CHOOSE k \in 1..Len(CodeOrder) : CodeOrder[k] = c

\* a <= b as Python compares strings
StrLeq(a, b) ==
    \/ a = b
    \/ \E k \in 1..(Min(Len(a), Len(b)) + 1) :
          /\ \A j \in 1..(k - 1) : a[j] = b[j]
          /\ \/ k = Len(a) + 1 /\ k <= Len(b)
             \/ k <= Len(a) /\ k <= Len(b) /\ Code(a[k]) < Code(b[k])

TicketId(i) == tickets[i].payload.ticket_id

\* C16: create_support_ticket succeeds whatever the issue description and the
\* originating question are: it does not raise and its payload is {ticket_id,
\* status "created", message}; the id is "TICKET-" followed by the fifteen
\* characters of the creation time to the second; ids are non-decreasing in
\* creation time, distinct for creations in distinct seconds and equal for
\* creations within the same second.
C16_TicketsSucceedOrderedIds ==
    /\ \A i \in 1..Len(tickets) :
          /\ ~tickets[i].raised
          /\ DOMAIN tickets[i].payload = {"ticket_id", "status", "message"}
          /\ tickets[i].payload.status = "created"
          /\ Len(TicketId(i)) = 22
          /\ SubSeq(TicketId(i), 1, 7) = <<"T","I","C","K","E","T","-">>
          /\ \A k \in 8..22 : (k = 16 /\ TicketId(i)[k] = "-") \/
                              (k # 16 /\ \E n \in 1..10 : TicketId(i)[k] = Digits[n])
    /\ \A i, j \in 1..Len(tickets) :
          /\ tickets[i].at <= tickets[j].at => StrLeq(TicketId(i), TicketId(j))
          /\ tickets[i].at # tickets[j].at => TicketId(i) # TicketId(j)
          /\ tickets[i].at = tickets[j].at => TicketId(i) = TicketId(j)

\* two tickets were created a second apart across the turn of the year, the
\* first for an issue description that is not a string
C16_Witness ==
    /\ Len(tickets) = 2
    /\ tickets[1].issue = Int42
    /\ tickets[2].at = tickets[1].at + 1
    /\ TicketId(1) = <<"T","I","C","K","E","T","-","2","0","2","4","1","2","3","1","-",
                       "2","3","5","9","5","9">>
    /\ TicketId(2) = <<"T","I","C","K","E","T","-","2","0","2","5","0","1","0","1","-",
                       "0","0","0","0","0","0">>

(***************************************************************************)
(* Properties of get_database_statistics (checked under SpecStatistics).   *)
(***************************************************************************)
StatisticsAt(i) == tool_history[i].name = "get_database_statistics"

\* C17: of two calls of get_database_statistics that meet the database file in
\* the same state, with nothing but tool invocations in between (queries that
\* run, fail or are turned down, schema reads, ticket creations, other
\* statistics calls), the second returns what the first returned.
C17_StatisticsIdempotent ==
    \A i, j \in 1..Len(tool_history) :
        (i < j /\ StatisticsAt(i) /\ StatisticsAt(j)
               /\ tool_history[i].db = tool_history[j].db) =>
            tool_history[j].payload = tool_history[i].payload

\* statistics over more than 100 rows, then a REPLACE INTO query, then the same
\* statistics again
C17_Witness ==
    /\ Len(tool_history) = 3
    /\ StatisticsAt(1)
    /\ "total_patients" \in DOMAIN tool_history[1].payload
    /\ tool_history[1].payload.total_patients > RowLimit
    /\ tool_history[2].name = "execute_sql_query"
    /\ tool_history[2].arg = Str(Q_Replace)
    /\ StatisticsAt(3)
    /\ tool_history[3].payload = tool_history[1].payload

(***************************************************************************)
(* Properties of get_database_schema (checked under SpecSchema).           *)
(***************************************************************************)
\* the text has the table's name at line p and, from the second line after it,
\* its column name/type pairs in declared order
TableAt(text, p, tb) ==
    /\ p + 1 + Len(tb.columns) <= Len(text)
    /\ text[p] = <<"Table: ", tb.name>>
    /\ \A c \in 1..Len(tb.columns) :
          text[p + 1 + c] = <<"  - ", tb.columns[c][1], tb.columns[c][2]>>

\* the text names every table of the store with its columns, and every view
SchemaLists(text, st) ==
    /\ \A k \in 1..Len(st.tables) : \E p \in 1..Len(text) : TableAt(text, p, st.tables[k])
    /\ \A v \in 1..Len(st.views) : \E p \in 1..Len(text) : text[p] = <<"  - ", st.views[v]>>

\* reading the catalogue of the store st and nothing else: the list of tables,
\* the column list of each table, the list of views
CatalogueReads(st) ==
    << "SELECT name FROM sqlite_master WHERE type='table'" >> \o
    [k \in 1..Len(st.tables) |-> <<"PRAGMA table_info", st.tables[k].name>>] \o
    << "SELECT name FROM sqlite_master WHERE type='view'" >>

\* C18: at the start of every turn the schema text is built from the store as it
\* then is: the text names every table, each followed by all its column
\* name/type pairs in declared order, and every view; and the statements run to
\* build it read the catalogue only, no row of a table.
C18_SchemaFromLiveMetadata ==
    [][ (pc = "Idle" /\ pc' # "Idle" /\ schema' # None) =>
            /\ SchemaLists(schema', store)
            /\ \A i \in 1..Len(store_log') : store_log'[i].origin = "get_database_schema"
            /\ [i \in 1..Len(store_log') |-> store_log'[i].sql] = CatalogueReads(store) ]_vars

\* a turn read the schema after a second run of the build script had replaced the
\* table, when the patient_id column was gone and the views were still there
C18_Witness ==
    /\ pc = "AwaitingModelDecision"
    /\ store.views # << >>
    /\ ~HasPatientId(store)
    /\ Len(store.rows) > RowLimit
    /\ SchemaLists(schema, store)
    /\ <<"  - ", "patient_id", "INTEGER">> \notin { schema[p] : p \in 1..Len(schema) }

(***************************************************************************)
(* Properties of a batch in which an invocation fails (checked under Spec). *)
(***************************************************************************)
\* the i-th invocation was dispatched and failed: the validator rejected its
\* query, or the store failed on the admitted query
FailedInvocation(i) ==
    /\ i <= Len(executed_tools)
    /\ executed_tools[i].name = "execute_sql_query"
    /\ "error" \in DOMAIN executed_tools[i].result

\* C19 as stated: when an invocation of the batch has failed, the failure is its
\* own tool outcome, every other invocation of the batch is dispatched and
\* reports its own outcome, the final backend call is made, and the turn is Done
\* unless that call itself fails.
C19_FailedInvocationNotFatal ==
    (pc \in {"Done", "Failed"} /\ \E i \in 1..Len(tool_calls) : FailedInvocation(i)) =>
        /\ Len(executed_tools) = Len(tool_calls)
        /\ \A i \in 1..Len(tool_calls) : HoldsResultOf(i)
        /\ Len(backend_calls) = 2
        /\ (pc = "Failed" => CallRaised(2))

\* What holds: the failed invocation is recorded with its own result and the
\* loop goes on to the next invocation; the turn fails after it only when a later
\* invocation raises or the final backend call fails.
FailedInvocationIsRecorded ==
    \A i \in 1..Len(tool_calls) :
        FailedInvocation(i) =>
            /\ HoldsResultOf(i)
            /\ Dispatched(i)
            /\ pc = "Failed" =>
                  \/ (idx > i /\ last_call.raised)
                  \/ (Len(backend_calls) = 2 /\ CallRaised(2))

(***************************************************************************)
(* Properties of the store connections (checked under Spec).               *)
(***************************************************************************)
\* C20 as stated: every connection opened by get_database_schema,
\* execute_sql_query or get_database_statistics is closed by that call before it
\* returns, on the success path and on every failure path, so that no
\* connection is left open after an operation or a turn.
C20_EveryConnectionClosed ==
    /\ last_call.closed = last_call.opened
    /\ conns = 0

\* What holds: a call that returns its result closes the one connection it
\* opened; a connection is left without close() only by a call that opened it and
\* then failed on the store.
ClosedOnSuccess ==
    /\ last_call.opened <= 1
    /\ last_call.closed <= last_call.opened
    /\ (last_call.name = "execute_sql_query" /\ ~last_call.raised
          /\ "success" \in DOMAIN last_call.payload /\ last_call.payload.success = TRUE)
         => (last_call.opened = 1 /\ last_call.closed = 1)
    /\ (schema # None /\ executed_tools = << >> /\ last_call = NoCall) => conns = 0

(***************************************************************************)
(* The admission rule of is_safe_query (checked under SpecValidator).      *)
(***************************************************************************)
\* one character in lower case
LowerChar(c) ==
    IF \E i \in 1..26 : UpperCase[i] = c
    THEN Lower[CHOOSE i \in 1..26 : UpperCase[i] = c]
    ELSE c

LowerOf(s) == [i \in 1..Len(s) |-> LowerChar(s[i])]

\* the query trimmed and upper-cased starts with SELECT, and none of the six
\* verbs occurs in it
Admissible(query) ==
    /\ StartsWith(Upper(Strip(query)), W_SELECT)
    /\ \A i \in 1..Len(DANGEROUS_KEYWORDS) : ~OccursIn(DANGEROUS_KEYWORDS[i], query)

\* queries that differ from the query in letter case or in leading and trailing
\* whitespace only
CaseAndSpaceVariants(query) ==
    { Upper(query), LowerOf(query), Strip(query),
      <<" ">> \o query, query \o <<"\n">>,
      <<"\t", " ">> \o LowerOf(query) \o <<"\r">> }

\* C21: is_safe_query admits a query exactly when its upper-cased, trimmed text
\* starts with SELECT and contains none of the six denylisted verbs; and a query
\* that differs from it only in letter case or in leading and trailing
\* whitespace gets the same verdict.
C21_AdmittedIffSelectWithoutVerb ==
    vres # NotRun =>
        /\ vres[1] = Admissible(vq)
        /\ \A v \in CaseAndSpaceVariants(vq) : is_safe_query(v) = vres

\* a lower-case select between whitespace, without any verb, was admitted
C21_Witness ==
    /\ vres = << TRUE, None >>
    /\ Len(vq) > 0
    /\ vq[1] \in Whitespace
    /\ vq[Len(vq)] \in Whitespace
    /\ Contains(<<"s","e","l","e","c","t">>, vq)
    /\ ~StartsWith(vq, W_SELECT)

(***************************************************************************)
(* Properties of a dispatched get_database_statistics (checked under Spec). *)
(***************************************************************************)
StatisticsFields ==
    { "total_patients", "diabetic_patients", "diabetes_rate_pct", "avg_bmi",
      "high_bp_rate_pct", "smoker_rate_pct" }

\* the step dispatches get_database_statistics, and the function is called
StatisticsDispatched ==
    /\ pc = "DispatchingTools"
    /\ tool_calls[idx].function.name = "get_database_statistics"
    /\ last_call'.name = "get_database_statistics"
    /\ last_call'.entered

\* an aggregate query of the call fails, or the table has no row
StatisticsFail ==
    last_call'.db # "ok" \/ store.tables = << >> \/ store.rows = << >>

\* C22: a dispatched get_database_statistics raises nothing to the dispatcher;
\* when an aggregate query fails or the table is empty its payload is {error}
\* and not the six aggregate fields; the payload is appended to the trace and
\* to the conversation as the outcome of the invocation, and the step does not
\* end the turn as Failed.
C22_StatisticsFailureIsOutcome ==
    [][ StatisticsDispatched =>
          /\ ~last_call'.raised
          /\ DOMAIN last_call'.payload =
                 IF StatisticsFail THEN {"error"} ELSE StatisticsFields
          /\ executed_tools' =
                 Append(executed_tools,
                        [ name   |-> "get_database_statistics",
                          args   |-> tool_calls[idx].function.arguments.obj,
                          result |-> last_call'.payload ])
          /\ messages' =
                 Append(messages,
                        [ tool_call_id |-> tool_calls[idx].id, role |-> "tool",
                          name |-> "get_database_statistics",
                          content |-> last_call'.payload ])
          /\ pc' \in {"DispatchingTools", "AwaitingFinalAnswer"} ]_vars

\* a turn is Done after get_database_statistics ran on the empty table and its
\* error payload went into the trace
C22_Witness ==
    /\ pc = "Done"
    /\ store.tables # << >>
    /\ store.rows = << >>
    /\ last_call.name = "get_database_statistics"
    /\ last_call.db = "ok"
    /\ Len(executed_tools) = Len(tool_calls)
    /\ executed_tools[Len(executed_tools)].name = "get_database_statistics"
    /\ DOMAIN executed_tools[Len(executed_tools)].result = {"error"}
    /\ ret.tool_results = executed_tools

====
